---- MODULE Spec2Model ----
(***************************************************************************)
(* Model of reddit_privacy_script.py: the interactive main() and the       *)
(* per-comment state machine of process_comments(), run against a remote   *)
(* comment store whose edit/delete capabilities may raise.                 *)
(*                                                                         *)
(* Strings typed at the prompts and comment bodies are sequences of        *)
(* one-character strings, so that strip()/lower()/isdigit()/int() are      *)
(* computed rather than assumed.  Timestamps are in seconds.               *)
(***************************************************************************)
EXTENDS Integers, Sequences, FiniteSets, TLC

VARIABLES
    pc,                 \* position of the single thread of control
    edit_text,          \* main(): replacement text (line 161)
    days_threshold,     \* main(): age threshold in days (line 164)
    delete_after_edit,  \* main(): line 167
    dry_run_input,      \* main(): normalised answer to the dry-run prompt (line 169)
    dry_run,            \* main(): line 170
    confirm,            \* main(): stripped confirmation (line 177)
    authed,             \* main(): reddit.user.me() at line 188 returned
    remote,             \* the platform: the user's comments, newest first
    now,                \* wall clock, seconds
    all_comments,       \* process_comments(): line 56/57
    idx,                \* position of the for loop of line 61 (0 = before it)
    comment_age_days,   \* line 83
    processed, edited, deleted, skipped, failed,   \* lines 46-50
    interrupted,        \* the except KeyboardInterrupt clause of line 124 ran
    exit_code,          \* process exit status, -1 while running
    run,                \* how many times the script has been started
    trace,              \* history: events of the current run, in order
    prev                \* history: what each finished run left behind

vars == <<pc, edit_text, days_threshold, delete_after_edit, dry_run_input,
          dry_run, confirm, authed, remote, now, all_comments, idx,
          comment_age_days, processed, edited, deleted, skipped, failed,
          interrupted, exit_code, run, trace, prev>>

cfgvars == <<edit_text, days_threshold, delete_after_edit, dry_run_input,
             dry_run, confirm>>
counters == <<processed, edited, deleted, skipped, failed>>

----------------------------------------------------------------------------
(* Bounds of the model *)

MaxComments == 2

(* Python: timedelta.days counts whole 86400-second days *)
SecondsPerDay == 86400

(* default of line 164 *)
DefaultDays == 30

----------------------------------------------------------------------------
(* Strings *)

Space == " "
UpperToLower == [c \in {"N", "Y", "E", "S", "F", "X"} |->
                   CASE c = "N" -> "n" [] c = "Y" -> "y" [] c = "E" -> "e"
                     [] c = "S" -> "s" [] c = "F" -> "f" [] c = "X" -> "x"]

RECURSIVE LStrip(_)
LStrip(s) == IF s # <<>> /\ Head(s) = Space THEN LStrip(Tail(s)) ELSE s

RECURSIVE RStrip(_)
RStrip(s) == IF s # <<>> /\ s[Len(s)] = Space
             THEN RStrip(SubSeq(s, 1, Len(s) - 1)) ELSE s

(* str.strip() *)
Strip(s) == RStrip(LStrip(s))

(* str.lower() *)
Lower(s) == [i \in 1..Len(s) |->
               IF s[i] \in DOMAIN UpperToLower THEN UpperToLower[s[i]] ELSE s[i]]

DigitValue == [c \in {"0", "1", "2", "3", "4", "5", "6", "7", "8", "9"} |->
                 CASE c = "0" -> 0 [] c = "1" -> 1 [] c = "2" -> 2 [] c = "3" -> 3
                   [] c = "4" -> 4 [] c = "5" -> 5 [] c = "6" -> 6 [] c = "7" -> 7
                   [] c = "8" -> 8 [] c = "9" -> 9]

(* str.isdigit() *)
IsDigit(s) == s # <<>> /\ \A i \in 1..Len(s) : s[i] \in DOMAIN DigitValue

(* int() of a string of digits *)
RECURSIVE ParseInt(_)
ParseInt(s) == IF s = <<>> THEN 0
               ELSE 10 * ParseInt(SubSeq(s, 1, Len(s) - 1)) + DigitValue[s[Len(s)]]

RECURSIVE Reverse(_)
(* list.reverse() of line 57 *)
Reverse(s) == IF s = <<>> THEN <<>> ELSE Append(Reverse(Tail(s)), Head(s))

YES == <<"Y", "E", "S">>

----------------------------------------------------------------------------
(* What the user may type at the prompts, and the comments the account may hold *)

EditInputs == {<<>>, <<"F">>, <<" ", "F", " ">>}
DaysInputs == {<<>>, <<"3", "0">>, <<"-", "1">>, <<" ", "3", "1">>}
DeleteInputs == {<<>>, <<"y">>, <<"N">>, <<"n", " ">>}
DryRunInputs == {<<>>, <<"y">>, <<"n">>, <<" ", "N">>}
ConfirmInputs == {<<>>, YES, <<" ", "Y", "E", "S", " ">>, <<"y", "e", "s">>}

Bodies == {<<"F">>, <<"h", "i">>}
AgeSeconds == {30 * SecondsPerDay, 30 * SecondsPerDay + SecondsPerDay \div 2,
               31 * SecondsPerDay}
ClockAdvances == {0, SecondsPerDay \div 2}
StartTime == 40 * SecondsPerDay

(* comments.new() lists newest first: creation times never increase along it *)
NewestFirst(s) == \A i, j \in DOMAIN s : i < j => s[i].created_utc >= s[j].created_utc

InitialRemotes ==
    LET Shapes == UNION {[1..n -> [body : Bodies, age : AgeSeconds]] : n \in 0..MaxComments}
        Mk(f) == [i \in DOMAIN f |-> [id |-> i, body |-> f[i].body,
                                      created_utc |-> StartTime - f[i].age,
                                      exists |-> TRUE]]
    IN {Mk(f) : f \in {g \in Shapes : NewestFirst(Mk(g))}}

----------------------------------------------------------------------------
(* History events *)

Ev(kind, id, ok) == [kind |-> kind, id |-> id, ok |-> ok, arg |-> <<>>]
EvEdit(id, ok, text) == [kind |-> "edit", id |-> id, ok |-> ok, arg |-> text]
EvInterrupt(at) == [kind |-> "interrupt", id |-> 0, ok |-> TRUE, arg |-> <<at>>]
Log(e) == trace' = Append(trace, e)

----------------------------------------------------------------------------
(* The platform *)

(* user.comments.new(limit=None), line 56: the existing comments, newest first *)
Listing == LET live == SelectSeq(remote, LAMBDA c : c.exists)
           IN [i \in DOMAIN live |-> [id |-> live[i].id, body |-> live[i].body,
                                      created_utc |-> live[i].created_utc]]

(* comment.edit(text), line 94, when it succeeds *)
RemoteEdit(id, text) ==
    [i \in DOMAIN remote |-> IF remote[i].id = id
                             THEN [remote[i] EXCEPT !.body = text] ELSE remote[i]]

(* comment.delete(), lines 67 and 103, when it succeeds *)
RemoteDelete(id) ==
    [i \in DOMAIN remote |-> IF remote[i].id = id
                             THEN [remote[i] EXCEPT !.exists = FALSE] ELSE remote[i]]

----------------------------------------------------------------------------
(* Pure decisions of the code *)

(* line 161 *)
ParseEditText(raw) == IF Strip(raw) = <<>> THEN <<"F">> ELSE Strip(raw)

(* lines 163-164 *)
ParseDays(raw) == IF IsDigit(Strip(raw)) THEN ParseInt(Strip(raw)) ELSE DefaultDays

(* lines 166-167 and 169-170 *)
NormaliseAnswer(raw) == Lower(Strip(raw))
AnswerIsNotNo(answer) == answer # <<"n">>

(* mutant: the confirmation compared without regard to case *)
ConfirmedAnyCase(answer) == Lower(answer) = Lower(YES)

(* line 178 *)
Confirmed(answer) == answer = YES

(* lines 82-83 *)
AgeDays(c) == (now - c.created_utc) \div SecondsPerDay

(* mutant: the threshold day itself counts as old enough *)
TooRecentStrict(age) == age < days_threshold

(* line 87 *)
TooRecent(age) == age <= days_threshold

(* mutant: the age check takes precedence over the already-edited check *)
AlreadyEditedAndOld(c) == c.body = edit_text /\ ~TooRecent(AgeDays(c))

(* line 64 *)
AlreadyEdited(c) == c.body = edit_text

(* mutant: the dry-run flag is ignored *)
LiveAlways == TRUE

(* lines 66 and 92 *)
Live == ~dry_run

(* mutant: the delete follows every edit *)
DeleteAlways == TRUE

(* line 102 *)
DeleteRequested == delete_after_edit

(* mutant: the reversal of line 57 is left out *)
FetchNewestFirst == Listing

(* lines 56-57 *)
FetchOldestFirst == Reverse(Listing)

----------------------------------------------------------------------------
Init ==
    /\ pc = "ask_text"
    /\ edit_text = <<>>
    /\ days_threshold = 0
    /\ delete_after_edit = FALSE
    /\ dry_run_input = <<>>
    /\ dry_run = TRUE
    /\ confirm = <<>>
    /\ authed = FALSE
    /\ remote \in InitialRemotes
    /\ now = StartTime
    /\ all_comments = <<>>
    /\ idx = 0
    /\ comment_age_days = 0
    /\ processed = 0 /\ edited = 0 /\ deleted = 0 /\ skipped = 0 /\ failed = 0
    /\ interrupted = FALSE
    /\ exit_code = -1
    /\ run = 1
    /\ trace = <<>>
    /\ prev = <<>>

procvars == <<all_comments, idx, comment_age_days, counters, interrupted>>
envvars == <<remote, now, run, prev>>

----------------------------------------------------------------------------
(* main(), lines 145-204 *)

(* line 161 *)
AskEditText ==
    /\ pc = "ask_text"
    /\ \E raw \in EditInputs : edit_text' = ParseEditText(raw)
    /\ pc' = "ask_days"
    /\ UNCHANGED <<days_threshold, delete_after_edit, dry_run_input, dry_run, confirm,
                   authed, procvars, envvars, exit_code, trace>>

(* lines 163-164 *)
AskDays ==
    /\ pc = "ask_days"
    /\ \E raw \in DaysInputs : days_threshold' = ParseDays(raw)
    /\ pc' = "ask_delete"
    /\ UNCHANGED <<edit_text, delete_after_edit, dry_run_input, dry_run, confirm,
                   authed, procvars, envvars, exit_code, trace>>

(* lines 166-167 *)
AskDelete ==
    /\ pc = "ask_delete"
    /\ \E raw \in DeleteInputs : delete_after_edit' = AnswerIsNotNo(NormaliseAnswer(raw))
    /\ pc' = "ask_dry"
    /\ UNCHANGED <<edit_text, days_threshold, dry_run_input, dry_run, confirm,
                   authed, procvars, envvars, exit_code, trace>>

(* lines 169-172 *)
AskDryRun ==
    /\ pc = "ask_dry"
    /\ \E raw \in DryRunInputs :
         /\ dry_run_input' = NormaliseAnswer(raw)
         /\ dry_run' = AnswerIsNotNo(NormaliseAnswer(raw))
    /\ pc' = IF dry_run' THEN "connect" ELSE "ask_confirm"
    /\ UNCHANGED <<edit_text, days_threshold, delete_after_edit, confirm,
                   authed, procvars, envvars, exit_code, trace>>

(* lines 177-180 *)
AskConfirm ==
    /\ pc = "ask_confirm"
    /\ \E raw \in ConfirmInputs : confirm' = Strip(raw)
    /\ IF Confirmed(confirm')
       THEN pc' = "connect" /\ exit_code' = exit_code
       ELSE pc' = "exit" /\ exit_code' = 0
    /\ UNCHANGED <<edit_text, days_threshold, delete_after_edit, dry_run_input, dry_run,
                   authed, procvars, envvars, trace>>

(* line 185: create_reddit_instance() returns *)
Connect ==
    /\ pc = "connect"
    /\ pc' = "auth"
    /\ UNCHANGED <<cfgvars, authed, procvars, envvars, exit_code, trace>>

(* line 188: reddit.user.me() returns *)
Authenticate ==
    /\ pc = "auth"
    /\ authed' = TRUE
    /\ pc' = "me"
    /\ UNCHANGED <<cfgvars, procvars, envvars, exit_code, trace>>

(* lines 185, 188, 42 and 56 raising an Exception: nothing of process_comments
   catches it, it reaches the handler of line 198 *)
SetupFails ==
    /\ pc \in {"connect", "auth", "me", "fetch"}
    /\ pc' = "fatal"
    /\ Log(Ev("setup_error", 0, FALSE))
    /\ UNCHANGED <<cfgvars, authed, procvars, envvars, exit_code>>

(* lines 198-204 *)
Fatal ==
    /\ pc = "fatal"
    /\ pc' = "exit"
    /\ exit_code' = 1
    /\ UNCHANGED <<cfgvars, authed, procvars, envvars, trace>>

----------------------------------------------------------------------------
(* process_comments(), lines 29-143 *)

Cur == all_comments[idx]

mainvars == <<cfgvars, authed, exit_code>>

(* lines 42-51: reddit.user.me() returns, the statistics start at zero *)
GetUser ==
    /\ pc = "me"
    /\ processed' = 0 /\ edited' = 0 /\ deleted' = 0 /\ skipped' = 0 /\ failed' = 0
    /\ all_comments' = <<>>
    /\ pc' = "fetch"
    /\ UNCHANGED <<mainvars, envvars, idx, comment_age_days, interrupted, trace>>

(* lines 56-58 *)
Fetch ==
    /\ pc = "fetch"
    /\ all_comments' = FetchOldestFirst
    /\ idx' = 0
    /\ pc' = "loop"
    /\ UNCHANGED <<mainvars, envvars, comment_age_days, counters, interrupted, trace>>

(* line 61: the next comment *)
LoopNext ==
    /\ pc = "loop"
    /\ idx < Len(all_comments)
    /\ idx' = idx + 1
    /\ pc' = "body"
    /\ Log(Ev("visit", all_comments[idx + 1].id, TRUE))
    /\ UNCHANGED <<mainvars, envvars, all_comments, comment_age_days, counters, interrupted>>

(* line 61: the list is exhausted *)
LoopEnd ==
    /\ pc = "loop"
    /\ idx = Len(all_comments)
    /\ pc' = "summary"
    /\ UNCHANGED <<mainvars, envvars, procvars, trace>>

(* lines 64-66 and 71-72 *)
CheckBody ==
    /\ pc = "body"
    /\ IF AlreadyEdited(Cur)
       THEN /\ Log(Ev("SCRUBBED_CLEANUP", Cur.id, TRUE))
            /\ pc' = IF Live THEN "s_delete" ELSE "s_done"
       ELSE /\ pc' = "age"
            /\ UNCHANGED trace
    /\ UNCHANGED <<mainvars, envvars, procvars>>

(* line 67: comment.delete() returns or raises *)
ScrubDelete ==
    /\ pc = "s_delete"
    /\ \E ok \in BOOLEAN :
         /\ Log(Ev("delete", Cur.id, ok))
         /\ remote' = IF ok THEN RemoteDelete(Cur.id) ELSE remote
         /\ pc' = IF ok THEN "s_count" ELSE "except"
    /\ UNCHANGED <<mainvars, now, run, prev, procvars>>

(* lines 68-70: the count, then the pause *)
ScrubCount ==
    /\ pc = "s_count"
    /\ deleted' = deleted + 1
    /\ Log(Ev("sleep", Cur.id, TRUE))
    /\ pc' = "s_done"
    /\ UNCHANGED <<mainvars, envvars, all_comments, idx, comment_age_days,
                   processed, edited, skipped, failed, interrupted>>

(* mutant: the cleanup path continues without its processed += 1 of line 73 *)
ScrubDoneUncounted ==
    /\ pc = "s_done"
    /\ pc' = "loop"
    /\ UNCHANGED <<mainvars, envvars, all_comments, idx, comment_age_days,
                   counters, interrupted, trace>>

(* lines 73-74 *)
ScrubDone ==
    /\ pc = "s_done"
    /\ processed' = processed + 1
    /\ pc' = "loop"
    /\ UNCHANGED <<mainvars, envvars, all_comments, idx, comment_age_days,
                   edited, deleted, skipped, failed, interrupted, trace>>

(* lines 77-84: the prints, the attribute reads or the date arithmetic raise *)
ClassifyFails ==
    /\ pc = "age"
    /\ Log(Ev("raise", Cur.id, FALSE))
    /\ pc' = "except"
    /\ UNCHANGED <<mainvars, envvars, procvars>>

(* lines 77-92 and 109-110 *)
CheckAge ==
    /\ pc = "age"
    /\ comment_age_days' = AgeDays(Cur)
    /\ IF TooRecent(comment_age_days')
       THEN /\ Log(Ev("TOO_RECENT", Cur.id, TRUE))
            /\ skipped' = skipped + 1
            /\ pc' = "loop"
       ELSE /\ Log(Ev("QUALIFIED", Cur.id, TRUE))
            /\ skipped' = skipped
            /\ pc' = IF Live THEN "edit" ELSE "done"
    /\ UNCHANGED <<mainvars, envvars, all_comments, idx,
                   processed, edited, deleted, failed, interrupted>>

(* mutant: edited is counted before the call is known to have succeeded *)
EditCountedFirst ==
    /\ pc = "edit"
    /\ \E ok \in BOOLEAN :
         /\ Log(EvEdit(Cur.id, ok, edit_text))
         /\ remote' = IF ok THEN RemoteEdit(Cur.id, edit_text) ELSE remote
         /\ pc' = IF ok THEN (IF DeleteRequested THEN "delete" ELSE "done") ELSE "except"
    /\ edited' = edited + 1
    /\ UNCHANGED <<mainvars, now, run, prev, all_comments, idx, comment_age_days,
                   processed, deleted, skipped, failed, interrupted>>

(* mutant: an error of the edit is swallowed and the comment goes on to its
   delete *)
EditErrorSwallowed ==
    /\ pc = "edit"
    /\ \E ok \in BOOLEAN :
         /\ Log(EvEdit(Cur.id, ok, edit_text))
         /\ remote' = IF ok THEN RemoteEdit(Cur.id, edit_text) ELSE remote
         /\ pc' = "e_count"
    /\ UNCHANGED <<mainvars, now, run, prev, procvars>>

(* line 94: comment.edit(edit_text) returns or raises *)
Edit ==
    /\ pc = "edit"
    /\ \E ok \in BOOLEAN :
         /\ Log(EvEdit(Cur.id, ok, edit_text))
         /\ remote' = IF ok THEN RemoteEdit(Cur.id, edit_text) ELSE remote
         /\ pc' = IF ok THEN "e_count" ELSE "except"
    /\ UNCHANGED <<mainvars, now, run, prev, procvars>>

(* lines 95-102: the count, the pause, then the choice of line 102 *)
EditCount ==
    /\ pc = "e_count"
    /\ edited' = edited + 1
    /\ Log(Ev("sleep", Cur.id, TRUE))
    /\ pc' = IF DeleteRequested THEN "delete" ELSE "done"
    /\ UNCHANGED <<mainvars, envvars, all_comments, idx, comment_age_days,
                   processed, deleted, skipped, failed, interrupted>>

(* line 103: comment.delete() returns or raises *)
Delete ==
    /\ pc = "delete"
    /\ \E ok \in BOOLEAN :
         /\ Log(Ev("delete", Cur.id, ok))
         /\ remote' = IF ok THEN RemoteDelete(Cur.id) ELSE remote
         /\ pc' = IF ok THEN "d_count" ELSE "except"
    /\ UNCHANGED <<mainvars, now, run, prev, procvars>>

(* lines 104-108: the count, then the pause *)
DeleteCount ==
    /\ pc = "d_count"
    /\ deleted' = deleted + 1
    /\ Log(Ev("sleep", Cur.id, TRUE))
    /\ pc' = "done"
    /\ UNCHANGED <<mainvars, envvars, all_comments, idx, comment_age_days,
                   processed, edited, skipped, failed, interrupted>>

(* mutant: the processed += 1 of line 112 is left out *)
DoneUncounted ==
    /\ pc = "done"
    /\ pc' = "loop"
    /\ UNCHANGED <<mainvars, envvars, all_comments, idx, comment_age_days,
                   counters, interrupted, trace>>

(* lines 112-116 *)
Done ==
    /\ pc = "done"
    /\ processed' = processed + 1
    /\ pc' = "loop"
    /\ UNCHANGED <<mainvars, envvars, all_comments, idx, comment_age_days,
                   edited, deleted, skipped, failed, interrupted, trace>>

(* mutant: the handler lets the error escape to main() *)
ExceptPropagates ==
    /\ pc = "except"
    /\ failed' = failed + 1
    /\ Log(Ev("failed", Cur.id, FALSE))
    /\ pc' = "fatal"
    /\ UNCHANGED <<mainvars, envvars, all_comments, idx, comment_age_days,
                   processed, edited, deleted, skipped, interrupted>>

(* mutant: the continue of line 122 is left out *)
ExceptFallsThrough ==
    /\ pc = "except"
    /\ failed' = failed + 1
    /\ Log(Ev("failed", Cur.id, FALSE))
    /\ pc' = "done"
    /\ UNCHANGED <<mainvars, envvars, all_comments, idx, comment_age_days,
                   processed, edited, deleted, skipped, interrupted>>

(* mutant: the handler tries the same comment again *)
ExceptRetries ==
    /\ pc = "except"
    /\ failed' = failed + 1
    /\ Log(Ev("failed", Cur.id, FALSE))
    /\ pc' = "body"
    /\ UNCHANGED <<mainvars, envvars, all_comments, idx, comment_age_days,
                   processed, edited, deleted, skipped, interrupted>>

(* lines 118-122: the per-comment handler *)
Except ==
    /\ pc = "except"
    /\ failed' = failed + 1
    /\ Log(Ev("failed", Cur.id, FALSE))
    /\ pc' = "loop"
    /\ UNCHANGED <<mainvars, envvars, all_comments, idx, comment_age_days,
                   processed, edited, deleted, skipped, interrupted>>

(* lines 127-143, then back in main(): lines 195-196 and its return *)
Summary ==
    /\ pc = "summary"
    /\ Log(Ev("summary", 0, TRUE))
    /\ pc' = "exit"
    /\ exit_code' = 0
    /\ UNCHANGED <<cfgvars, authed, envvars, procvars>>

----------------------------------------------------------------------------
(* KeyboardInterrupt *)

(* the statements inside the try of lines 53-124 *)
InTry == {"fetch", "loop", "body", "s_delete", "s_count", "s_done", "age",
          "edit", "e_count", "delete", "d_count", "done", "except"}

(* the statements no except KeyboardInterrupt clause covers *)
OutsideTry == {"ask_text", "ask_days", "ask_delete", "ask_dry", "ask_confirm",
               "connect", "auth", "me", "summary", "fatal"}

(* mutant: the per-comment handler catches the interruption too, as
   `except BaseException` would *)
InterruptHandledPerComment ==
    /\ pc \in InTry
    /\ interrupted' = TRUE
    /\ Log(EvInterrupt(pc))
    /\ pc' = IF pc \in {"fetch", "loop"} THEN "summary" ELSE "except"
    /\ UNCHANGED <<mainvars, envvars, all_comments, idx, comment_age_days, counters>>

(* mutant: the interruption is counted like a comment's error *)
InterruptCountedAsFailure ==
    /\ pc \in InTry
    /\ interrupted' = TRUE
    /\ failed' = failed + 1
    /\ Log(EvInterrupt(pc))
    /\ pc' = "summary"
    /\ UNCHANGED <<mainvars, envvars, all_comments, idx, comment_age_days,
                   processed, edited, deleted, skipped>>

(* lines 124-125: except Exception does not catch it, the outer clause does *)
InterruptCaught ==
    /\ pc \in InTry
    /\ interrupted' = TRUE
    /\ Log(EvInterrupt(pc))
    /\ pc' = "summary"
    /\ UNCHANGED <<mainvars, envvars, all_comments, idx, comment_age_days, counters>>

(* elsewhere it ends the process: main() catches Exception only (line 198) *)
InterruptUncaught ==
    /\ pc \in OutsideTry
    /\ pc' = "exit"
    /\ exit_code' = 130
    /\ Log(Ev("killed", 0, TRUE))
    /\ UNCHANGED <<cfgvars, authed, envvars, procvars>>

----------------------------------------------------------------------------
(* The user starts the script a second time (lines 206-207) and gives the same
   answers; the clock may have moved on.  Two consecutive runs are what the
   rerun properties compare. *)

SummaryEmitted == \E i \in DOMAIN trace : trace[i].kind = "summary"

Rerun ==
    /\ pc = "exit"
    /\ exit_code = 0
    /\ SummaryEmitted
    /\ run = 1
    /\ run' = run + 1
    /\ \E d \in ClockAdvances : now' = now + d
    /\ prev' = Append(prev, [clean |-> failed = 0 /\ ~interrupted,
                             interrupted |-> interrupted,
                             remote |-> remote, now |-> now])
    /\ pc' = "connect"
    /\ exit_code' = -1
    /\ authed' = FALSE
    /\ trace' = <<>>
    /\ all_comments' = <<>>
    /\ idx' = 0
    /\ comment_age_days' = 0
    /\ processed' = 0 /\ edited' = 0 /\ deleted' = 0 /\ skipped' = 0 /\ failed' = 0
    /\ interrupted' = FALSE
    /\ UNCHANGED <<cfgvars, remote>>

----------------------------------------------------------------------------
Next ==
    \/ AskEditText \/ AskDays \/ AskDelete \/ AskDryRun \/ AskConfirm
    \/ Connect \/ Authenticate \/ SetupFails \/ Fatal
    \/ GetUser \/ Fetch \/ LoopNext \/ LoopEnd \/ CheckBody
    \/ ScrubDelete \/ ScrubCount \/ ScrubDone
    \/ ClassifyFails \/ CheckAge
    \/ Edit \/ EditCount \/ Delete \/ DeleteCount \/ Done
    \/ Except \/ Summary
    \/ InterruptCaught \/ InterruptUncaught
    \/ Rerun

Spec == Init /\ [][Next]_vars

(* process_comments is sequential code: once entered, each statement of lines
   53-143 comes to its end (a call returns or raises, a sleep of one second
   elapses), so the function keeps taking steps until it returns.  The
   prompts of main() wait for the user and an interruption may never come:
   neither is under any fairness. *)
ProcessStep ==
    \/ Fetch \/ LoopNext \/ LoopEnd \/ CheckBody
    \/ ScrubDelete \/ ScrubCount \/ ScrubDone
    \/ ClassifyFails \/ CheckAge
    \/ Edit \/ EditCount \/ Delete \/ DeleteCount \/ Done
    \/ Except \/ Summary

FairSpec == Spec /\ WF_vars(ProcessStep)

----------------------------------------------------------------------------
(* Vocabulary of the properties *)

EventsOf(kind) == {i \in DOMAIN trace : trace[i].kind = kind}
Calls == {i \in DOMAIN trace : trace[i].kind \in {"edit", "delete"}}
CallsOn(id) == {i \in Calls : trace[i].id = id}
OkCallsOn(kind, id) == {i \in EventsOf(kind) : trace[i].id = id /\ trace[i].ok}
Classified(id, cls) == \E i \in EventsOf(cls) : trace[i].id = id
Visited(id) == Classified(id, "visit")
Fetched == DOMAIN all_comments
IdsWith(kind, ok) == {trace[i].id : i \in {j \in EventsOf(kind) : trace[j].ok = ok}}

(* the iteration of the k-th fetched comment is over *)
Settled(k) == k < idx \/ (k = idx /\ pc \in {"loop", "summary", "exit"})

(* the spec's own notions, computed from the fetched data *)
IsScrubbed(c) == c.body = edit_text
IsYoung(c) == (now - c.created_utc) \div SecondsPerDay <= days_threshold

----------------------------------------------------------------------------
(* C1: in a dry run no edit and no delete is ever issued and the platform's
   comments stay as fetched, whatever the comments and whatever
   delete_after_edit; every classification is still counted: skipped counts
   the too-recent comments and processed the scrubbed and qualifying ones. *)
C1_DryRunMakesNoCall ==
    dry_run =>
      /\ Calls = {}
      /\ \A k \in Fetched : \E i \in DOMAIN remote :
            /\ remote[i].id = all_comments[k].id
            /\ remote[i].exists
            /\ remote[i].body = all_comments[k].body
      /\ edited = 0 /\ deleted = 0
      /\ skipped = Cardinality(EventsOf("TOO_RECENT"))
      /\ (~interrupted /\ pc \in {"loop", "summary", "exit"}) =>
            processed = Cardinality(EventsOf("SCRUBBED_CLEANUP") \cup EventsOf("QUALIFIED"))

C1_Witness ==
    /\ dry_run /\ delete_after_edit /\ pc = "exit" /\ exit_code = 0
    /\ EventsOf("QUALIFIED") # {} /\ EventsOf("SCRUBBED_CLEANUP") # {}
    /\ processed = 2

(* C2: an edit or delete happens only after the answer 'n' to the dry-run
   prompt and the confirmation 'YES' (both read after trimming blanks, the
   first also case-folded); any other confirmation typed for a live run ends
   the process with status 0, nothing authenticated, fetched or called. *)
C2_ConfirmationGate ==
    /\ Calls # {} => (dry_run_input = <<"n">> /\ confirm = YES)
    /\ (~dry_run /\ confirm # YES /\ pc # "ask_confirm" /\ exit_code # 130) =>
          /\ pc = "exit" /\ exit_code = 0
          /\ ~authed /\ trace = <<>> /\ all_comments = <<>>

C2_Witness ==
    /\ \E i \in Calls : trace[i].ok
    /\ dry_run_input = <<"n">> /\ confirm = YES

(* C3: a fetched comment at most age_threshold_days old (the threshold itself
   included) whose body is not the replacement text is never classified
   otherwise than TOO_RECENT and never edited or deleted, dry run or live; the
   age check of such a comment adds exactly one to skipped and leaves the
   other counters alone. *)
C3_TooRecentIsSkipped ==
    /\ [](\A k \in Fetched :
            (IsYoung(all_comments[k]) /\ ~IsScrubbed(all_comments[k])) =>
               /\ CallsOn(all_comments[k].id) = {}
               /\ ~Classified(all_comments[k].id, "SCRUBBED_CLEANUP")
               /\ ~Classified(all_comments[k].id, "QUALIFIED"))
    /\ [](skipped = Cardinality(EventsOf("TOO_RECENT")))
    /\ [][(pc = "age" /\ pc' \notin {"summary", "except"} /\ IsYoung(Cur) /\ ~IsScrubbed(Cur)) =>
            /\ trace' = Append(trace, Ev("TOO_RECENT", Cur.id, TRUE))
            /\ skipped' = skipped + 1
            /\ UNCHANGED <<processed, edited, deleted, failed, remote>>
            /\ pc' = "loop"]_vars

C3_Witness ==
    /\ ~dry_run /\ pc = "exit"
    /\ \E k \in Fetched :
         /\ (now - all_comments[k].created_utc) \div SecondsPerDay = days_threshold
         /\ now - all_comments[k].created_utc > days_threshold * SecondsPerDay
         /\ ~IsScrubbed(all_comments[k])
         /\ Classified(all_comments[k].id, "TOO_RECENT")
    /\ skipped = 1

(* C4: a fetched comment whose body equals the replacement text is classified
   SCRUBBED_CLEANUP whatever its age, never TOO_RECENT or QUALIFIED; it is
   never edited, and live the body check is followed by the delete call. *)
C4_ScrubbedIsCleanedUp ==
    /\ [](\A k \in Fetched : IsScrubbed(all_comments[k]) =>
            /\ ~Classified(all_comments[k].id, "TOO_RECENT")
            /\ ~Classified(all_comments[k].id, "QUALIFIED")
            /\ \A i \in CallsOn(all_comments[k].id) : trace[i].kind = "delete"
            /\ (dry_run => CallsOn(all_comments[k].id) = {})
            /\ (Settled(k) /\ ~interrupted) =>
                  /\ Classified(all_comments[k].id, "SCRUBBED_CLEANUP")
                  /\ (~dry_run => Cardinality(CallsOn(all_comments[k].id)) = 1))
    /\ [][(pc = "body" /\ pc' # "summary" /\ IsScrubbed(Cur)) =>
            /\ trace' = Append(trace, Ev("SCRUBBED_CLEANUP", Cur.id, TRUE))
            /\ pc' = IF dry_run THEN "s_done" ELSE "s_delete"]_vars

C4_Witness ==
    /\ ~dry_run
    /\ \E k \in Fetched :
         /\ IsScrubbed(all_comments[k]) /\ IsYoung(all_comments[k])
         /\ OkCallsOn("delete", all_comments[k].id) # {}
         /\ Settled(k)

(* C5 as stated: live, a comment older than the threshold whose body is not
   the replacement text gets the edit call with the replacement text, and a
   delete call if and only if delete_after_edit. *)
C5_AsStated ==
    (~dry_run /\ ~interrupted) =>
      \A k \in Fetched :
        (Settled(k) /\ Classified(all_comments[k].id, "QUALIFIED")
           /\ ~IsYoung(all_comments[k]) /\ ~IsScrubbed(all_comments[k])) =>
          /\ \E i \in CallsOn(all_comments[k].id) :
                trace[i].kind = "edit" /\ trace[i].arg = edit_text
          /\ (\E i \in CallsOn(all_comments[k].id) : trace[i].kind = "delete")
                <=> delete_after_edit

(* C5 amended: live and uninterrupted, a comment older than the threshold
   whose body is not the replacement text is classified QUALIFIED when its age
   is checked, then gets exactly one edit call, with the replacement text; the
   delete call is issued if and only if delete_after_edit is true and that
   edit returned successfully. *)
C5_EditThenDeleteIfEditSucceeded ==
    /\ [](\A k \in Fetched :
            (~IsYoung(all_comments[k]) /\ ~IsScrubbed(all_comments[k])) =>
               /\ ~Classified(all_comments[k].id, "TOO_RECENT")
               /\ ~Classified(all_comments[k].id, "SCRUBBED_CLEANUP")
               /\ (dry_run => CallsOn(all_comments[k].id) = {})
               /\ (~dry_run /\ ~interrupted /\ Settled(k)
                     /\ Classified(all_comments[k].id, "QUALIFIED")) =>
                     /\ \E i \in CallsOn(all_comments[k].id) :
                           /\ trace[i].kind = "edit" /\ trace[i].arg = edit_text
                           /\ \A j \in CallsOn(all_comments[k].id) :
                                 trace[j].kind = "edit" => j = i
                     /\ (\E i \in CallsOn(all_comments[k].id) : trace[i].kind = "delete")
                           <=> (delete_after_edit
                                  /\ OkCallsOn("edit", all_comments[k].id) # {}))
    /\ [][(pc = "age" /\ pc' \notin {"summary", "except"} /\ ~IsYoung(Cur) /\ ~IsScrubbed(Cur)) =>
            /\ trace' = Append(trace, Ev("QUALIFIED", Cur.id, TRUE))
            /\ pc' = IF dry_run THEN "done" ELSE "edit"]_vars

C5_Witness ==
    /\ ~dry_run /\ ~interrupted /\ delete_after_edit /\ pc = "exit"
    /\ \E k \in Fetched :
         /\ Classified(all_comments[k].id, "QUALIFIED")
         /\ \E i \in CallsOn(all_comments[k].id) : trace[i].kind = "edit" /\ ~trace[i].ok
         /\ \A i \in CallsOn(all_comments[k].id) : trace[i].kind # "delete"
    /\ \E k \in Fetched :
         /\ OkCallsOn("edit", all_comments[k].id) # {}
         /\ OkCallsOn("delete", all_comments[k].id) # {}

(* the calls and reads that raised *)
Raised == {i \in DOMAIN trace : trace[i].kind \in {"raise", "edit", "delete"} /\ ~trace[i].ok}

(* C6: absent an interruption, every error raised while a comment is
   classified or mutated is caught by that comment's handler and counted once
   in failed; it never reaches main(): the loop goes on to the remaining
   comments, all of them are visited, the summary is printed and the process
   exits with status 0. *)
C6_FailureIsIsolated ==
    (~interrupted /\ exit_code # 130) =>
      /\ Cardinality(Raised) = failed + (IF pc = "except" THEN 1 ELSE 0)
      /\ failed = Cardinality(EventsOf("failed"))
      /\ Raised # {} => pc \in InTry \cup {"summary", "exit"}
      /\ (Raised # {} /\ pc = "exit") =>
            /\ SummaryEmitted
            /\ \A k \in Fetched : Visited(all_comments[k].id)
            /\ \A i \in Raised : \A m, k \in Fetched :
                  (all_comments[m].id = trace[i].id /\ k > m)
                    => \E j \in EventsOf("visit") : j > i /\ trace[j].id = all_comments[k].id
      /\ (Raised # {} /\ pc = "exit") => exit_code = 0

C6_Witness ==
    /\ ~interrupted /\ pc = "exit" /\ exit_code = 0 /\ failed = 1
    /\ \E i \in Raised : trace[i].kind = "raise" /\
         \E j \in EventsOf("QUALIFIED") : j > i
    /\ SummaryEmitted

FailedIds == {trace[i].id : i \in EventsOf("failed")}

(* C7 as stated: a comment counted in failed contributes nothing to edited or
   deleted, whether the edit or the delete after a successful edit raised. *)
C7_AsStated ==
    (~interrupted /\ pc = "loop") =>
      /\ edited = Cardinality(IdsWith("edit", TRUE) \ FailedIds)
      /\ deleted = Cardinality(IdsWith("delete", TRUE) \ FailedIds)

(* C7 amended: a failed comment contributes nothing to deleted, and nothing to
   edited when its edit raised; when the delete after a successful edit
   raised, edited has already been incremented for that comment and stays
   so: a comment counted in failed contributes to edited exactly when its own
   edit succeeded. *)
C7_FailedCountsOnlySuccessfulEdit ==
    (~interrupted /\ pc = "loop") =>
      /\ deleted = Cardinality(IdsWith("delete", TRUE) \ FailedIds)
      /\ IdsWith("delete", TRUE) \cap FailedIds = {}
      /\ edited = Cardinality(IdsWith("edit", TRUE) \ FailedIds)
                    + Cardinality({id \in FailedIds : OkCallsOn("edit", id) # {}})
      /\ \A id \in FailedIds :
            /\ (\E i \in CallsOn(id) : trace[i].kind = "edit" /\ ~trace[i].ok)
                  => OkCallsOn("edit", id) = {}
            /\ OkCallsOn("edit", id) # {}
                  <=> (/\ Classified(id, "QUALIFIED")
                       /\ \E i \in CallsOn(id) : trace[i].kind = "delete" /\ ~trace[i].ok)
      /\ processed + failed + skipped = idx

C7_Witness ==
    /\ ~interrupted /\ pc = "loop"
    /\ failed = 1 /\ edited = 1 /\ deleted = 0 /\ processed = 0
    /\ \E i \in Raised : trace[i].kind = "delete" /\ OkCallsOn("edit", trace[i].id) # {}

(* creation time of the fetched comment with this id *)
CreatedById == [id \in {all_comments[k].id : k \in Fetched} |->
                  all_comments[CHOOSE k \in Fetched : all_comments[k].id = id].created_utc]
CreatedOf(id) == CreatedById[id]

(* C8: the listing being newest first, the comments are handled oldest
   first: when a comment is visited every fetched comment created earlier
   has been visited before it, and the events (visits, classifications,
   calls) follow one another in creation order, so that every event on an
   earlier-created comment precedes every event on a later-created one. *)
C8_OldestFirst ==
    LET created == CreatedById
        about == {i \in DOMAIN trace : trace[i].id # 0}
    IN /\ NewestFirst(Listing)
       /\ \A j \in EventsOf("visit") : \A k \in Fetched :
             all_comments[k].created_utc < created[trace[j].id]
               => \E i \in EventsOf("visit") : i < j /\ trace[i].id = all_comments[k].id
       /\ \A j \in about : j > 1 =>
             created[trace[j - 1].id] <= created[trace[j].id]

C8_Witness ==
    /\ ~dry_run /\ pc = "exit"
    /\ \E i, j \in DOMAIN trace :
         /\ i < j
         /\ trace[i].kind = "delete" /\ trace[j].kind = "visit"
         /\ CreatedOf(trace[i].id) < CreatedOf(trace[j].id)

(* both runs were live, ran their loops to the end and printed the summary *)
SecondRunOver ==
    /\ run = 2 /\ pc = "exit" /\ exit_code = 0 /\ SummaryEmitted
    /\ ~dry_run /\ ~interrupted /\ ~prev[1].interrupted

ScrubbedLeft == {i \in DOMAIN remote : remote[i].exists /\ remote[i].body = edit_text}

(* C9 as stated: after two live runs with the same configuration no existing
   comment has the replacement text as its body. *)
C9_AsStated == SecondRunOver => ScrubbedLeft = {}

(* C9 amended: after two live runs with the same configuration, neither
   interrupted and neither with a failed comment, every comment that carried
   the replacement text when the first run ended (scrubbed by it or before
   it) has been deleted; a comment that still carries it was edited by the
   second run itself, with delete_after_edit false, having passed the age
   threshold between the runs; with delete_after_edit true none is left. *)
C9_SecondRunCleansUp ==
    (SecondRunOver /\ prev[1].clean /\ failed = 0) =>
      /\ \A i \in DOMAIN remote :
            (prev[1].remote[i].exists /\ prev[1].remote[i].body = edit_text)
              => ~remote[i].exists
      /\ \A i \in ScrubbedLeft :
            /\ ~delete_after_edit
            /\ OkCallsOn("edit", remote[i].id) # {}
            /\ (prev[1].now - remote[i].created_utc) \div SecondsPerDay <= days_threshold
            /\ (now - remote[i].created_utc) \div SecondsPerDay > days_threshold
      /\ delete_after_edit => ScrubbedLeft = {}

C9_Witness ==
    /\ SecondRunOver /\ prev[1].clean /\ failed = 0
    /\ ~delete_after_edit
    /\ \E i \in DOMAIN remote :
         /\ prev[1].remote[i].exists /\ prev[1].remote[i].body = edit_text
         /\ ~remote[i].exists
    /\ ScrubbedLeft # {}

(* C10: no comment whose age is at most age_threshold_days is ever edited or
   deleted, whatever its body, in the first run or the second: every edit or
   delete that took effect was on a comment older than the threshold. *)
C10_YoungUntouched ==
    \A i \in Calls : \A k \in Fetched :
       (trace[i].ok /\ all_comments[k].id = trace[i].id) => ~IsYoung(all_comments[k])

----------------------------------------------------------------------------
(* The accounting of a run *)

Counted == skipped + processed + failed
VisitCount == Cardinality(EventsOf("visit"))

(* the interruption arrived while a comment was being worked on, that is
   anywhere but in the fetch or at the head of the loop *)
InFlight == \E i \in EventsOf("interrupt") : trace[i].arg[1] \notin {"fetch", "loop"}
BetweenIterations == pc \in {"loop", "summary", "exit"}

(* C11 as stated: at the end of every run skipped + processed + failed is the
   number of comments visited, which is the number fetched when the run was
   not interrupted. *)
C11_AsStated ==
    pc = "exit" =>
      /\ Counted = VisitCount
      /\ (~interrupted /\ SummaryEmitted) => Counted = Len(all_comments)

(* C11 amended: between iterations and at the end of every run, skipped +
   processed + failed is the number of comments whose iteration has ended:
   all the comments fetched when the run was not interrupted, all the comments
   visited when the interruption arrived between two iterations, and one less
   than the comments visited when it arrived during an iteration, the comment
   then in hand being counted nowhere.  skipped counts the TOO_RECENT
   decisions and failed the handled errors, at most one of the two for a
   comment. *)
C11_CountersPartitionEndedIterations ==
    /\ BetweenIterations =>
          /\ Counted = VisitCount - (IF InFlight THEN 1 ELSE 0)
          /\ (~interrupted /\ SummaryEmitted) => Counted = Len(all_comments)
    /\ skipped = Cardinality(EventsOf("TOO_RECENT"))
    /\ failed = Cardinality(EventsOf("failed"))
    /\ \A i \in EventsOf("TOO_RECENT") : \A j \in EventsOf("failed") :
          trace[i].id # trace[j].id
    /\ processed <= VisitCount - skipped - failed

C11_Witness ==
    /\ pc = "exit" /\ exit_code = 0 /\ SummaryEmitted
    /\ InFlight
    /\ VisitCount = 2 /\ Counted = 1 /\ failed = 1

CompletedUninterrupted == ~interrupted /\ SummaryEmitted
ActedOnIds == {trace[i].id : i \in EventsOf("SCRUBBED_CLEANUP") \cup EventsOf("QUALIFIED")}

(* C12 as stated: when a run completes without interruption, processed +
   skipped is the number of comments fetched. *)
C12_AsStated ==
    CompletedUninterrupted => processed + skipped = Len(all_comments)

(* C12 amended: when a run completes without interruption, processed +
   skipped is the number of comments fetched less the failed ones, so it is
   the number fetched exactly when no comment failed; processed counts the
   scrubbed and the qualifying comments whose iteration raised no error. *)
C12_ProcessedPlusSkippedOmitsFailed ==
    CompletedUninterrupted =>
      /\ processed + skipped = Len(all_comments) - failed
      /\ (processed + skipped = Len(all_comments)) <=> (EventsOf("failed") = {})
      /\ processed = Cardinality(ActedOnIds \ FailedIds)

C12_Witness ==
    /\ CompletedUninterrupted /\ pc = "exit"
    /\ Len(all_comments) = 2
    /\ processed = 1 /\ skipped = 0 /\ failed = 1
    /\ EventsOf("SCRUBBED_CLEANUP") # {}

(* C13: an interruption arriving during the fetch or during the loop ends the
   loop at once and is not an error: it leaves the five statistics as they
   were and failed in particular, nothing is visited or called after it, the
   process never takes the error exit, and the summary follows with those
   statistics unless a further interruption kills the process while it is
   being printed; and once the list is fetched the summary is eventually
   emitted, with the same exception. *)
C13_InterruptEndsLoopThenSummary ==
    /\ [][(~interrupted /\ interrupted') =>
            (counters' = counters /\ pc' = "summary" /\ idx' = idx)]_vars
    /\ [][interrupted => (counters' = counters \/ ~interrupted')]_vars
    /\ [](interrupted =>
            /\ pc \in {"summary", "exit"} /\ exit_code \in {-1, 0, 130}
            /\ \A i \in EventsOf("interrupt") : \A j \in DOMAIN trace :
                  j > i => trace[j].kind \in {"summary", "killed"})
    /\ (interrupted ~> (SummaryEmitted \/ exit_code = 130))
    /\ (pc = "loop" ~> (SummaryEmitted \/ exit_code = 130))

C13_Witness ==
    /\ interrupted /\ SummaryEmitted /\ pc = "exit" /\ exit_code = 0
    /\ edited = 1 /\ deleted = 0 /\ failed = 1 /\ processed = 0
    /\ \E i \in EventsOf("interrupt") : trace[i].arg[1] = "delete"

(* C14 as stated: when the loop ends on an interruption, every comment whose
   processing had started has reached its end: it is counted in one of
   processed, skipped and failed, and if its edit succeeded and
   delete_after_edit is true its delete has been called. *)
C14_AsStated ==
    interrupted =>
      /\ Counted = VisitCount
      /\ \A k \in 1..idx :
            (delete_after_edit /\ OkCallsOn("edit", all_comments[k].id) # {})
              => \E i \in CallsOn(all_comments[k].id) : trace[i].kind = "delete"

(* C14 amended: the interruption is honoured where it arrives.  Arriving in
   the fetch or at the head of the loop it leaves every visited comment
   counted; arriving during an iteration it leaves the comment in hand as it
   then is: counted in none of processed, skipped and failed, never handed to
   the error handler, and, when it arrives after the edit has returned and
   before the delete is called, edited on the platform and not deleted
   although delete_after_edit is true. *)
C14_InterruptAbandonsCommentInHand ==
    \A i \in EventsOf("interrupt") :
       LET at == trace[i].arg[1] IN
       /\ Counted = VisitCount - (IF at \in {"fetch", "loop"} THEN 0 ELSE 1)
       /\ at \notin {"fetch", "loop"} =>
             /\ idx = VisitCount
             /\ Cur.id \notin FailedIds
             /\ ~Classified(Cur.id, "TOO_RECENT")
             /\ \A j \in CallsOn(Cur.id) : j < i
       /\ at \in {"e_count", "delete"} =>
             /\ OkCallsOn("edit", Cur.id) # {}
             /\ \A j \in CallsOn(Cur.id) : trace[j].kind = "edit"
             /\ \E r \in DOMAIN remote :
                   remote[r].id = Cur.id /\ remote[r].exists /\ remote[r].body = edit_text

C14_Witness ==
    /\ interrupted /\ pc = "exit" /\ SummaryEmitted /\ delete_after_edit
    /\ \E i \in EventsOf("interrupt") : trace[i].arg[1] = "delete"
    /\ Counted = 1 /\ VisitCount = 2 /\ processed = 1

(* C15: between any two mutating calls of a run there is at least one
   rate-limit pause, whether the earlier call returned or raised. *)
C15_PauseBetweenCalls ==
    \A i \in Calls : \A j \in Calls :
       i < j => \E k \in EventsOf("sleep") : i < k /\ k < j

----------------------------------------------------------------------------
(* The exit status *)

SetupError == EventsOf("setup_error") # {}
Killed == EventsOf("killed") # {}

(* C16 as stated: the process ends with a non-zero status exactly when an
   error occurred before the loop (creating the instance, authenticating,
   fetching); every other execution ends with status 0. *)
C16_AsStated ==
    pc = "exit" => (exit_code # 0 <=> SetupError)

(* C16 amended: the process ends with a non-zero status exactly when an error
   occurred before the loop or an interruption arrived outside the try block
   of process_comments (at a prompt, during the setup, while the summary is
   printed), which nothing catches.  A cancelled confirmation, failed
   comments and an interruption during the fetch or the loop all end with
   status 0: no error of a comment reaches main(). *)
C16_ExitStatus ==
    /\ pc = "exit" =>
          /\ exit_code # 0 <=> (SetupError \/ Killed)
          /\ exit_code = 130 <=> Killed
          /\ exit_code = 1 => SetupError
          /\ (EventsOf("failed") # {} \/ interrupted) => exit_code \in {0, 130}
    /\ pc = "fatal" => (SetupError /\ idx = 0 /\ EventsOf("visit") = {})

C16_Witness ==
    /\ pc = "exit" /\ exit_code = 0
    /\ EventsOf("failed") # {} /\ interrupted /\ ~Killed

----------------------------------------------------------------------------
(* C17: in a run every comment is visited at most once and a failed comment
   is not tried again: for every comment id the run holds at most one visit,
   at most one edit call and at most one delete call, and no call on a
   comment follows the handling of its error; the ids fetched are distinct. *)
C17_AtMostOneEditOneDeletePerComment ==
    /\ \A i \in DOMAIN trace : \A j \in DOMAIN trace :
          (i < j /\ trace[i].kind \in {"visit", "edit", "delete", "failed"})
            => ~(trace[i].id = trace[j].id /\ trace[i].kind = trace[j].kind)
    /\ \A i \in EventsOf("failed") : \A j \in CallsOn(trace[i].id) : j < i
    /\ \A k \in Fetched : \A l \in Fetched :
          all_comments[k].id = all_comments[l].id => k = l

C17_Witness ==
    /\ pc = "exit" /\ exit_code = 0 /\ ~interrupted
    /\ \E i \in EventsOf("failed") :
          /\ \E j \in CallsOn(trace[i].id) : trace[j].kind = "edit" /\ ~trace[j].ok
          /\ \E j \in EventsOf("visit") : j > i
    /\ \E k \in Fetched :
          /\ OkCallsOn("edit", all_comments[k].id) # {}
          /\ OkCallsOn("delete", all_comments[k].id) # {}

----------------------------------------------------------------------------
ScrubIds == {trace[i].id : i \in EventsOf("SCRUBBED_CLEANUP")}
QualifiedDeleted ==
    {trace[i].id : i \in {j \in EventsOf("delete") :
                            trace[j].ok /\ Classified(trace[j].id, "QUALIFIED")}}

(* C18 as stated: every comment taken down the already-scrubbed path adds one
   to deleted and one to processed, dry run or live. *)
C18_AsStated ==
    (BetweenIterations /\ ~interrupted) =>
      /\ deleted = Cardinality(ScrubIds \ FailedIds) + Cardinality(QualifiedDeleted)
      /\ processed = Cardinality(ActedOnIds \ FailedIds)

(* C18 amended: for a comment taken down the already-scrubbed path no age is
   computed and no edit is issued; in a live run its delete is called, and if
   the call returns deleted and processed grow by one each; in a dry run no
   call is made, processed grows by one and deleted does not. *)
C18_ScrubbedPath ==
    /\ \A i \in DOMAIN trace :
          trace[i].id \in ScrubIds =>
             trace[i].kind \in {"visit", "SCRUBBED_CLEANUP", "delete", "sleep", "failed"}
    /\ \A id \in ScrubIds : \A i \in CallsOn(id) : ~dry_run
    /\ (BetweenIterations /\ ~interrupted) =>
          /\ \A id \in ScrubIds : dry_run \/ CallsOn(id) # {}
          /\ deleted = (IF dry_run THEN 0 ELSE Cardinality(ScrubIds \ FailedIds))
                         + Cardinality(QualifiedDeleted)
          /\ processed = Cardinality(ActedOnIds \ FailedIds)
    /\ pc \in {"s_delete", "s_count", "s_done"} => Cur.id \in ScrubIds

C18_Witness ==
    /\ pc = "exit" /\ exit_code = 0 /\ ~interrupted /\ ~dry_run
    /\ Cardinality(ScrubIds) = 2 /\ Cardinality(FailedIds) = 1
    /\ deleted = 1 /\ processed = 1 /\ edited = 0

----------------------------------------------------------------------------
(* the statements between a call's return and the increment of its counter *)
PendingEdit == IF pc = "e_count" THEN 1 ELSE 0
PendingDelete == IF pc \in {"s_count", "d_count"} THEN 1 ELSE 0
LostEdit == \E i \in EventsOf("interrupt") : trace[i].arg[1] = "e_count"
LostDelete == \E i \in EventsOf("interrupt") : trace[i].arg[1] \in {"s_count", "d_count"}
OkEdits == {i \in EventsOf("edit") : trace[i].ok}
OkDeletes == {i \in EventsOf("delete") : trace[i].ok}

(* C19: in every state of a run edited is the number of edit calls that have
   returned and deleted the number of delete calls that have returned, the
   call that has just returned being counted by the statement that follows
   it, unless an interruption arrived between that return and that statement
   (the counter is then one short for good); both are 0 throughout a dry run;
   each counted edit or delete is one that took effect on the platform. *)
C19_CountersMatchSuccessfulCalls ==
    /\ edited + PendingEdit + (IF LostEdit THEN 1 ELSE 0) = Cardinality(OkEdits)
    /\ deleted + PendingDelete + (IF LostDelete THEN 1 ELSE 0) = Cardinality(OkDeletes)
    /\ dry_run => (edited = 0 /\ deleted = 0 /\ OkEdits = {} /\ OkDeletes = {})
    /\ \A i \in OkDeletes : \E r \in DOMAIN remote :
          remote[r].id = trace[i].id /\ ~remote[r].exists

C19_Witness ==
    /\ pc = "exit" /\ exit_code = 0 /\ ~interrupted /\ ~dry_run
    /\ edited = 2 /\ deleted = 1 /\ failed = 1
    /\ Cardinality(OkEdits) = 2 /\ Cardinality(OkDeletes) = 1

----------------------------------------------------------------------------
(* C20: no comment is deleted with its original text.  Every delete call of a
   run is on a comment fetched with the replacement text as its body or
   follows an edit call on the same comment that returned in that run; after
   an edit call that raised no delete is called on that comment in the run;
   and every comment gone from the platform had the replacement text as its
   body when it went. *)
C20_NoDeleteOfOriginalText ==
    /\ \A i \in EventsOf("delete") :
          \/ \E k \in Fetched :
                all_comments[k].id = trace[i].id /\ IsScrubbed(all_comments[k])
          \/ \E j \in OkCallsOn("edit", trace[i].id) : j < i
    /\ \A i \in EventsOf("edit") :
          ~trace[i].ok => \A j \in CallsOn(trace[i].id) : j = i
    /\ \A r \in DOMAIN remote : ~remote[r].exists => remote[r].body = edit_text

C20_Witness ==
    /\ pc = "exit" /\ exit_code = 0 /\ ~interrupted /\ delete_after_edit
    /\ \E i \in EventsOf("delete") :
          /\ trace[i].ok
          /\ \E j \in OkCallsOn("edit", trace[i].id) : j < i
    /\ \E i \in EventsOf("edit") : ~trace[i].ok

====
